---- MODULE Spec2Model ----
(***************************************************************************)
(* A model of exifextract.py: the value formatter, the GPS decoder, the    *)
(* metadata printer and the image dispatcher (get_exif_data).              *)
(*                                                                         *)
(* Python values are tagged records:                                       *)
(*   None            [k |-> "none"]                                        *)
(*   bytes           [k |-> "bytes", b |-> <<"N">>]  one string per byte,  *)
(*                   BadByte standing for a byte that is not valid UTF-8   *)
(*   (n, d)          [k |-> "rat", n |-> n, d |-> d]                       *)
(*   tuple           [k |-> "tuple", items |-> <<...>>]                    *)
(* A Python float is the exact rational [neg, num, den]; neg is the sign   *)
(* bit (so -0.0 keeps its sign, as in Python).                             *)
(* Printed text is a sequence of tokens: Str(s) is literal text, Dec(...)  *)
(* a decimal numeral given by its sign, integer part and fraction digits.  *)
(* The colorama colour prefixes are not part of the modelled text.         *)
(***************************************************************************)
EXTENDS Integers, Sequences, FiniteSets, TLC

VARIABLES
    pc,         \* the statement of get_exif_data about to run; "done" after it
    image,      \* the object Image.open returned: its file handle (fp), its
                \* format and the 'exif' entry of its info
    exif_data,  \* image.info.get('exif') (line 119)
    exif_dict,  \* the dictionary piexif.load returned (line 122)
    exc,        \* the exception in flight inside the try block, or "none"
    raised,     \* the exception that left get_exif_data, or "none"
    out         \* the lines printed so far

vars == <<pc, image, exif_data, exif_dict, exc, raised, out>>

\* ---------------------------------------------------------------- bounds
\* Denominators of the rationals of the inputs range over 0..MaxDen.
MaxDen == 2
\* Fraction digits kept when a float is rendered by str()/repr().
ReprDigits == 12

\* ---------------------------------------------------------------- values
None == [k |-> "none"]
Bytes(b) == [k |-> "bytes", b |-> b]
Rat(n, d) == [k |-> "rat", n |-> n, d |-> d]
Tuple(items) == [k |-> "tuple", items |-> items]
BadByte == "\\xff"

\* Python truthiness of a tag value: None, b'' and () are falsy.
Truthy(v) ==
    /\ v.k # "none"
    /\ (v.k = "bytes" => v.b # <<>>)
    /\ (v.k = "tuple" => v.items # <<>>)

Str(s) == [t |-> "s", s |-> s]
Num(n) == [t |-> "i", n |-> n]
Dec(neg, ip, frac) == [t |-> "d", neg |-> neg, ip |-> ip, frac |-> frac]
Float(neg, num, den) == [neg |-> neg, num |-> num, den |-> den]

\* ------------------------------------------------------- float rendering
\* The first k fraction digits of r/den (0 <= r < den), by long division.
RECURSIVE FracDigits(_, _, _)
FracDigits(r, den, k) ==
    IF k = 0 THEN <<>>
    ELSE <<(r * 10) \div den>> \o FracDigits((r * 10) % den, den, k - 1)

\* The remainder left after k fraction digits.
RECURSIVE FracRem(_, _, _)
FracRem(r, den, k) ==
    IF k = 0 THEN r ELSE FracRem((r * 10) % den, den, k - 1)

\* A digit string plus one, with the carry out of its first digit.
RECURSIVE Incr(_)
Incr(ds) ==
    IF ds = <<>> THEN [carry |-> 1, ds |-> <<>>]
    ELSE LET n == Len(ds)
             last == ds[n]
             init == SubSeq(ds, 1, n - 1)
         IN IF last < 9 THEN [carry |-> 0, ds |-> Append(init, last + 1)]
            ELSE LET r == Incr(init)
                 IN [carry |-> r.carry, ds |-> Append(r.ds, 0)]

\* f"{x:.<places>f}": the value rounded to the given number of fraction
\* digits (round half to even), the sign bit kept.
FormatFixed(x, places) ==
    LET ip == x.num \div x.den
        r == x.num % x.den
        ds == FracDigits(r, x.den, places)
        rem == FracRem(r, x.den, places)
        lastOdd == IF places = 0 THEN ip % 2 = 1 ELSE ds[places] % 2 = 1
        up == 2 * rem > x.den \/ (2 * rem = x.den /\ lastOdd)
        inc == Incr(ds)
    IN IF up THEN Dec(x.neg, ip + inc.carry, inc.ds)
       ELSE Dec(x.neg, ip, ds)

RECURSIVE StripZeros(_)
StripZeros(ds) ==
    IF ds # <<>> /\ ds[Len(ds)] = 0
    THEN StripZeros(SubSeq(ds, 1, Len(ds) - 1))
    ELSE ds

\* str(x) of a float: the shortest decimal that reads back as x; modelled
\* as x to ReprDigits fraction digits without trailing zeros, and with at
\* least one fraction digit ("40.5", "2.0").
FloatRepr(x) ==
    LET d == FormatFixed(x, ReprDigits)
        s == StripZeros(d.frac)
    IN Dec(d.neg, d.ip, IF s = <<>> THEN <<0>> ELSE s)

\* The value a numeral denotes, trailing zeros aside.
NumeralValue(d) == [neg |-> d.neg, ip |-> d.ip, frac |-> StripZeros(d.frac)]

\* ------------------------------------------------------------- decoding
\* bytes.decode('utf-8'): fails on a byte that is not valid UTF-8.
DecodeFails(v) == \E i \in 1..Len(v.b) : v.b[i] = BadByte
Decode(v) == [i \in 1..Len(v.b) |-> Str(v.b[i])]
\* bytes.decode('utf-8', errors='ignore'): undecodable bytes are dropped.
DecodeIgnore(v) ==
    LET good == SelectSeq(v.b, LAMBDA c : c # BadByte)
    IN [i \in 1..Len(good) |-> Str(good[i])]

\* str(v) of a tag value.
RECURSIVE PyStr(_)
RECURSIVE JoinStr(_, _)
JoinStr(items, sep) ==
    IF items = <<>> THEN <<>>
    ELSE IF Len(items) = 1 THEN PyStr(items[1])
    ELSE PyStr(items[1]) \o <<Str(sep)>> \o JoinStr(Tail(items), sep)
PyStr(v) ==
    CASE v.k = "none" -> <<Str("None")>>
      [] v.k = "int" -> <<Num(v.n)>>
      [] v.k = "rat" -> <<Str("("), Num(v.n), Str(", "), Num(v.d), Str(")")>>
      [] v.k = "bytes" -> <<Str("b'")>> \o [i \in 1..Len(v.b) |-> Str(v.b[i])] \o <<Str("'")>>
      [] v.k = "tuple" -> <<Str("(")>> \o JoinStr(v.items, ", ") \o <<Str(")")>>

format_value(value) ==
    IF value.k = "bytes" THEN DecodeIgnore(value)
    ELSE IF value.k = "tuple" THEN JoinStr(value.items, " ")
    ELSE PyStr(value)

\* ---------------------------------------------------------- GPS decoder
\* convert_to_decimal: degrees/minutes/seconds, each a (numerator,
\* denominator) pair, to decimal degrees.  A zero denominator makes the
\* division raise ZeroDivisionError.
ConvertRaises(degree_tuple) ==
    \E i \in 1..3 : degree_tuple.items[i].d = 0

convert_to_decimal(degree_tuple) ==
    LET degrees == degree_tuple.items[1]
        minutes == degree_tuple.items[2]
        seconds == degree_tuple.items[3]
    IN Float(FALSE,
             degrees.n * minutes.d * seconds.d * 3600
               + minutes.n * degrees.d * seconds.d * 60
               + seconds.n * degrees.d * minutes.d,
             degrees.d * minutes.d * seconds.d * 3600)

\* a[0] / a[1] of a rational pair.
Quotient(r) == Float(FALSE, r.n, r.d)
Negate(x) == Float(~x.neg, x.num, x.den)

get_google_maps_url(latitude, longitude) ==
    <<Str("https://www.google.com/maps?q="), FloatRepr(latitude),
      Str(","), FloatRepr(longitude)>>

NA == <<Str("N/A")>>

\* The GPS tags parse_gps_data reads; an absent tag reads as None.
GPSTagNames ==
    {"GPSLatitudeRef", "GPSLongitudeRef", "GPSLatitude", "GPSLongitude",
     "GPSAltitude", "GPSTimeStamp", "GPSSpeedRef", "GPSSpeed",
     "GPSImgDirectionRef", "GPSImgDirection", "GPSDestBearingRef",
     "GPSDestBearing", "GPSDateStamp", "GPSHPositioningError"}
EmptyGPS == [tag \in GPSTagNames |-> None]

\* The defaults of the two hemisphere references (lines 35 and 36).
DefaultLatitudeRef == Bytes(<<"N">>)
\* (a variant of the longitude default: east instead of west)
DefaultLongitudeRefE == Bytes(<<"E">>)
DefaultLongitudeRef == Bytes(<<"W">>)

\* dict.get(key, default)
Get(d, key, default) == IF d[key] = None THEN default ELSE d[key]

\* Whether lat_decimal / lon_decimal is negated (lines 54-57).
LatitudeNegated(latitude_ref) == latitude_ref = <<Str("S")>>
LongitudeNegated(longitude_ref) == longitude_ref = <<Str("W")>>

\* The first exception of a sequence of evaluation steps, "none" if none.
RECURSIVE FirstExc(_)
FirstExc(steps) ==
    IF steps = <<>> THEN "none"
    ELSE IF Head(steps) # "none" THEN Head(steps)
    ELSE FirstExc(Tail(steps))

ZeroDiv(r) == IF r.d = 0 THEN "ZeroDivisionError" ELSE "none"
BadDecode(b) == IF DecodeFails(b) THEN "UnicodeDecodeError" ELSE "none"

\* f"{v[0] / v[1]} {ref.decode('utf-8')}" if v and ref else "N/A"
WithRef(v, ref) ==
    IF Truthy(v) /\ Truthy(ref)
    THEN <<FloatRepr(Quotient(v)), Str(" ")>> \o Decode(ref)
    ELSE NA
WithRefExc(v, ref) ==
    IF Truthy(v) /\ Truthy(ref) THEN FirstExc(<<ZeroDiv(v), BadDecode(ref)>>)
    ELSE "none"

Field(key, value) == [key |-> key, value |-> value]

\* The order of the keys of the dict parse_gps_data returns.
GPSKeys ==
    <<"Latitude", "Longitude", "Google Maps URL", "Altitude", "TimeStamp",
      "Speed", "ImgDirection", "DestBearing", "DateStamp", "PosError">>

\* parse_gps_data: [exc |-> the exception it raises, "none" when it
\* returns; fields |-> the dict it returns, in insertion order].
parse_gps_data(d) ==
    LET gps_info == IF "GPS" \in d.keys THEN d.GPS ELSE EmptyGPS
        lat_ref_bytes == Get(gps_info, "GPSLatitudeRef", DefaultLatitudeRef)
        lon_ref_bytes == Get(gps_info, "GPSLongitudeRef", DefaultLongitudeRef)
        latitude_ref == Decode(lat_ref_bytes)
        longitude_ref == Decode(lon_ref_bytes)
        latitude == gps_info["GPSLatitude"]
        longitude == gps_info["GPSLongitude"]
        altitude == gps_info["GPSAltitude"]
        time_stamp == gps_info["GPSTimeStamp"]
        speed_ref == gps_info["GPSSpeedRef"]
        speed == gps_info["GPSSpeed"]
        img_direction_ref == gps_info["GPSImgDirectionRef"]
        img_direction == gps_info["GPSImgDirection"]
        dest_bearing_ref == gps_info["GPSDestBearingRef"]
        dest_bearing == gps_info["GPSDestBearing"]
        date_stamp == gps_info["GPSDateStamp"]
        pos_error == gps_info["GPSHPositioningError"]
        refExc == FirstExc(<<BadDecode(lat_ref_bytes), BadDecode(lon_ref_bytes)>>)
        present == Truthy(latitude) /\ Truthy(longitude)
        convExc ==
            IF ConvertRaises(latitude) \/ ConvertRaises(longitude)
            THEN "ZeroDivisionError" ELSE "none"
        lat0 == convert_to_decimal(latitude)
        lon0 == convert_to_decimal(longitude)
        lat_decimal == IF LatitudeNegated(latitude_ref) THEN Negate(lat0) ELSE lat0
        lon_decimal == IF LongitudeNegated(longitude_ref) THEN Negate(lon0) ELSE lon0
        google_maps_url == get_google_maps_url(lat_decimal, lon_decimal)
        dictExc ==
            FirstExc(<<IF Truthy(altitude) THEN ZeroDiv(altitude) ELSE "none",
                       WithRefExc(speed, speed_ref),
                       WithRefExc(img_direction, img_direction_ref),
                       WithRefExc(dest_bearing, dest_bearing_ref),
                       IF Truthy(pos_error) THEN ZeroDiv(pos_error) ELSE "none">>)
        values ==
            [key \in {GPSKeys[i] : i \in 1..Len(GPSKeys)} |->
               CASE key = "Latitude" ->
                      <<FormatFixed(lat_decimal, 6), Str(" ")>> \o latitude_ref
                 [] key = "Longitude" ->
                      <<FormatFixed(lon_decimal, 6), Str(" ")>> \o longitude_ref
                 [] key = "Google Maps URL" -> google_maps_url
                 [] key = "Altitude" ->
                      IF Truthy(altitude)
                      THEN <<FormatFixed(Quotient(altitude), 2), Str(" meters")>>
                      ELSE NA
                 [] key = "TimeStamp" -> format_value(time_stamp)
                 [] key = "Speed" -> WithRef(speed, speed_ref)
                 [] key = "ImgDirection" -> WithRef(img_direction, img_direction_ref)
                 [] key = "DestBearing" -> WithRef(dest_bearing, dest_bearing_ref)
                 [] key = "DateStamp" -> format_value(date_stamp)
                 [] key = "PosError" ->
                      IF Truthy(pos_error)
                      THEN <<FloatRepr(Quotient(pos_error)), Str(" meters")>>
                      ELSE NA]
    IN IF refExc # "none" THEN [exc |-> refExc, fields |-> <<>>]
       ELSE IF ~present
            THEN [exc |-> "none",
                  fields |-> [i \in 1..Len(GPSKeys) |-> Field(GPSKeys[i], NA)]]
       ELSE IF convExc # "none" THEN [exc |-> convExc, fields |-> <<>>]
       ELSE IF dictExc # "none" THEN [exc |-> dictExc, fields |-> <<>>]
       ELSE [exc |-> "none",
             fields |-> [i \in 1..Len(GPSKeys) |-> Field(GPSKeys[i], values[GPSKeys[i]])]]

\* ----------------------------------------------------- metadata printer
PlainIfds == {"0th", "Exif", "Interop", "1st"}
Tag(id, value) == [id |-> id, value |-> value]

\* piexif.TAGS[ifd_name].get(tag_id, {}).get('name', tag_id): the name of
\* a known tag, the raw id of an unknown one.
TagName(ifd_name, tag_id) ==
    CASE ifd_name \in {"0th", "1st"} /\ tag_id = 271 -> Str("Make")
      [] ifd_name \in {"0th", "1st"} /\ tag_id = 274 -> Str("Orientation")
      [] ifd_name = "Exif" /\ tag_id = 37500 -> Str("MakerNote")
      [] ifd_name = "Exif" /\ tag_id = 34855 -> Str("ISOSpeedRatings")
      [] ifd_name = "Interop" /\ tag_id = 1 -> Str("InteroperabilityIndex")
      [] OTHER -> Num(tag_id)

Header(text) == [kind |-> "header", text |-> text]

\* print_exif_data: the lines it prints for one section.
print_exif_data(d, ifd_name) ==
    IF ifd_name \notin d.keys
    THEN <<[kind |-> "ifd", ifd |-> ifd_name, found |-> FALSE]>>
    ELSE LET tags == d.ifd[ifd_name]
             shown == SelectSeq(tags,
                        LAMBDA e : TagName(ifd_name, e.id) # Str("MakerNote"))
         IN <<[kind |-> "ifd", ifd |-> ifd_name, found |-> TRUE]>>
            \o [i \in 1..Len(shown) |->
                  [kind |-> "tag", name |-> TagName(ifd_name, shown[i].id),
                   value |-> format_value(shown[i].value)]]

\* ---------------------------------------------------------------- inputs
Dens == 0..MaxDen

Latitudes ==
    {None, Tuple(<<>>)}
      \cup {Tuple(<<Rat(40, 1), Rat(30 * d, d), Rat(0, 1)>>) : d \in Dens}
      \cup {Tuple(<<Rat(48, 1), Rat(51, 1), Rat(29, d)>>) : d \in Dens \ {0}}
Longitudes ==
    {None, Tuple(<<Rat(0, 1), Rat(0, 1), Rat(0, 1)>>)}
      \cup {Tuple(<<Rat(2, 1), Rat(17, 1), Rat(40, d)>>) : d \in Dens}
LatitudeRefs == {None, Bytes(<<"N">>), Bytes(<<"S">>), Bytes(<<BadByte>>)}
LongitudeRefs == {None, Bytes(<<"E">>), Bytes(<<"W">>), Bytes(<<BadByte>>)}

\* GPS sections that vary the coordinates and their references.
CoordinateSections ==
    {[EmptyGPS EXCEPT !["GPSLatitude"] = lat, !["GPSLongitude"] = lon,
                      !["GPSLatitudeRef"] = latRef, !["GPSLongitudeRef"] = lonRef] :
       lat \in Latitudes, lon \in Longitudes,
       latRef \in LatitudeRefs, lonRef \in LongitudeRefs}

Paris ==
    [EmptyGPS EXCEPT
       !["GPSLatitude"] = Tuple(<<Rat(48, 1), Rat(51, 1), Rat(29, 1)>>),
       !["GPSLongitude"] = Tuple(<<Rat(2, 1), Rat(17, 1), Rat(40, 1)>>),
       !["GPSLatitudeRef"] = Bytes(<<"N">>),
       !["GPSLongitudeRef"] = Bytes(<<"E">>)]

Altitudes == {None} \cup {Rat(1234, d) : d \in Dens}
TimeStamps == {None, Tuple(<<Rat(12, 1), Rat(30, 1), Rat(0, 1)>>)}
DateStamps == {None, Bytes(<<"2024:01:02">>), Bytes(<<"2024", BadByte>>)}
Speeds ==
    {<<None, None>>, <<Rat(5, 2), Bytes(<<"K">>)>>, <<Rat(5, 0), Bytes(<<"K">>)>>,
     <<Rat(5, 2), Bytes(<<BadByte>>)>>, <<Rat(5, 2), None>>}
Directions == {<<None, None>>, <<Rat(90, 1), Bytes(<<"T">>)>>, <<Rat(90, 1), None>>}
PosErrors == {None, Rat(5, 2), Rat(5, 0)}

\* GPS sections that vary the other tags, with and without a latitude.
DetailSections ==
    {[Paris EXCEPT !["GPSLatitude"] = lat,
                   !["GPSAltitude"] = alt, !["GPSTimeStamp"] = ts,
                   !["GPSDateStamp"] = ds,
                   !["GPSSpeed"] = sp[1], !["GPSSpeedRef"] = sp[2],
                   !["GPSImgDirection"] = dir[1], !["GPSImgDirectionRef"] = dir[2],
                   !["GPSDestBearing"] = dir[1], !["GPSDestBearingRef"] = dir[2],
                   !["GPSHPositioningError"] = pe] :
       lat \in {None, Paris["GPSLatitude"]},
       alt \in Altitudes, ts \in TimeStamps, ds \in DateStamps,
       sp \in Speeds, dir \in Directions, pe \in PosErrors}

GPSSections == CoordinateSections \cup DetailSections

\* The contents of the four plain sections, and the section keys present.
FullIfds ==
    [ifd_name \in PlainIfds |->
       CASE ifd_name = "0th" ->
              <<Tag(271, Bytes(<<"Canon">>)), Tag(274, [k |-> "int", n |-> 1])>>
         [] ifd_name = "Exif" ->
              <<Tag(37500, Bytes(<<BadByte, "notes">>)),
                Tag(34855, [k |-> "int", n |-> 100]),
                Tag(59999, Tuple(<<Rat(1, 2)>>))>>
         [] ifd_name = "Interop" -> <<Tag(1, Bytes(<<"R98">>))>>
         [] ifd_name = "1st" -> <<>>]
PlainShapes ==
    {[keys |-> PlainIfds, ifd |-> FullIfds],
     [keys |-> {"0th", "Exif"}, ifd |-> FullIfds],
     [keys |-> {}, ifd |-> FullIfds]}

\* The thumbnail entry: key absent, key with None (what the parser stores
\* for an image without a thumbnail), key with the thumbnail's bytes.
Thumbnails == {"absent", "none", "data"}

Dict(shape, gpsKey, gps, thumb) ==
    [keys |-> shape.keys
               \cup (IF gpsKey THEN {"GPS"} ELSE {})
               \cup (IF thumb = "absent" THEN {} ELSE {"thumbnail"}),
     ifd |-> shape.ifd,
     GPS |-> gps,
     thumbnail |-> IF thumb = "data" THEN Bytes(<<"JFIF">>) ELSE None]

\* What piexif.load can return for a metadata block.
Dicts ==
    {Dict(shape, TRUE, gps, thumb) :
       shape \in PlainShapes, gps \in GPSSections, thumb \in Thumbnails}
      \cup {Dict(shape, FALSE, EmptyGPS, thumb) :
              shape \in PlainShapes, thumb \in Thumbnails}

Formats == {"JPEG", "JPG", "MPO", "PNG", "TIFF", "WEBP", "BMP", "GIF"}
ExifBlocks == {None, Bytes(<<>>), Bytes(<<"Exif">>)}

\* ------------------------------------------------------ image dispatcher
NoImage == [fp |-> "none", format |-> "", exif |-> None]
NoDict == [keys |-> {}]

\* What Image.open can raise.  FileNotFoundError and UnidentifiedImageError
\* are subclasses of OSError (IOError); DecompressionBombError is not.
OpenExceptions ==
    {"FileNotFoundError", "UnidentifiedImageError", "DecompressionBombError"}
IsIOError(e) == e \in {"FileNotFoundError", "UnidentifiedImageError"}

\* The except clause of line 108, and the one of line 153.
OpenHandlerCatches(e) == IsIOError(e)
\* (a variant of the second: a handler for the parser's error only)
ExtractHandlerCatchesParseOnly(e) == e = "InvalidImageDataError"
ExtractHandlerCatches(e) == TRUE

\* The statement that follows each statement of the try block (125-149);
\* SuccessorSwapped is a variant with the GPS and Interop sections exchanged.
SuccessorSwapped(label) ==
    CASE label = "general" -> "camera"
      [] label = "camera" -> "interop"
      [] label = "interop" -> "gps"
      [] label = "gps" -> "first"
      [] label = "first" -> "thumbnail"
      [] label = "thumbnail" -> "done"
Successor(label) ==
    CASE label = "general" -> "camera"
      [] label = "camera" -> "gps"
      [] label = "gps" -> "interop"
      [] label = "interop" -> "first"
      [] label = "first" -> "thumbnail"
      [] label = "thumbnail" -> "done"

Init ==
    /\ pc = "open"
    /\ image = NoImage
    /\ exif_data = None
    /\ exif_dict = NoDict
    /\ exc = "none"
    /\ raised = "none"
    /\ out = <<>>

\* Line 107: the image opens; the returned object holds the file handle.
OpenImage ==
    /\ pc = "open"
    /\ \E format \in Formats, exif \in ExifBlocks :
         image' = [fp |-> "open", format |-> format, exif |-> exif]
    /\ pc' = "format"
    /\ UNCHANGED <<exif_data, exif_dict, exc, raised, out>>

\* Lines 107-110: Image.open raises; the handler of line 108 prints and
\* returns, any other exception leaves get_exif_data.
OpenFails ==
    /\ pc = "open"
    /\ \E e \in OpenExceptions :
         IF OpenHandlerCatches(e)
         THEN /\ out' = Append(out, [kind |-> "openerror", cause |-> e])
              /\ raised' = raised
         ELSE /\ raised' = e
              /\ out' = out
    /\ pc' = "done"
    /\ UNCHANGED <<image, exif_data, exif_dict, exc>>

\* Lines 113-117, 156, 167: print the format and dispatch on it.
PrintFormat ==
    /\ pc = "format"
    /\ out' = Append(out, [kind |-> "format", format |-> image.format])
    /\ pc' = IF image.format \in {"JPEG", "JPG"} THEN "exif"
             ELSE IF image.format \in {"PNG", "TIFF", "WEBP", "BMP"} THEN "basic"
             ELSE "unsupported"
    /\ UNCHANGED <<image, exif_data, exif_dict, exc, raised>>

\* Lines 119-120, 151-152.
ReadExif ==
    /\ pc = "exif"
    /\ exif_data' = image.exif
    /\ IF Truthy(image.exif)
       THEN /\ pc' = "load"
            /\ out' = out
       ELSE /\ pc' = "done"
            /\ out' = Append(out, [kind |-> "noexif"])
    /\ UNCHANGED <<image, exif_dict, exc, raised>>

\* Line 122: piexif.load returns the dictionary.
LoadExif ==
    /\ pc = "load"
    /\ \E d \in Dicts : exif_dict' = d
    /\ pc' = "general"
    /\ UNCHANGED <<image, exif_data, exc, raised, out>>

\* Line 122: piexif.load rejects the block.
LoadFails ==
    /\ pc = "load"
    /\ exc' = "InvalidImageDataError"
    /\ pc' = "except"
    /\ UNCHANGED <<image, exif_data, exif_dict, raised, out>>

\* Lines 125-126.
PrintGeneral ==
    /\ pc = "general"
    /\ out' = out \o <<Header("General Information")>>
                  \o print_exif_data(exif_dict, "0th")
    /\ pc' = Successor("general")
    /\ UNCHANGED <<image, exif_data, exif_dict, exc, raised>>

\* Lines 129-130.
PrintCamera ==
    /\ pc = "camera"
    /\ out' = out \o <<Header("Camera Settings")>>
                  \o print_exif_data(exif_dict, "Exif")
    /\ pc' = Successor("camera")
    /\ UNCHANGED <<image, exif_data, exif_dict, exc, raised>>

\* Lines 133-136: the header, then parse_gps_data, then one line per field
\* of the dict it returned; an exception of parse_gps_data goes to the
\* handler of line 153 with the header already printed.
PrintGPS ==
    /\ pc = "gps"
    /\ LET gps_data == parse_gps_data(exif_dict)
       IN IF gps_data.exc # "none"
          THEN /\ out' = Append(out, Header("GPS Data"))
               /\ exc' = gps_data.exc
               /\ pc' = "except"
          ELSE /\ out' = out \o <<Header("GPS Data")>>
                             \o [i \in 1..Len(gps_data.fields) |->
                                   [kind |-> "gps",
                                    key |-> gps_data.fields[i].key,
                                    value |-> gps_data.fields[i].value]]
               /\ exc' = exc
               /\ pc' = Successor("gps")
    /\ UNCHANGED <<image, exif_data, exif_dict, raised>>

\* Lines 139-140.
PrintInterop ==
    /\ pc = "interop"
    /\ out' = out \o <<Header("Interop Data")>>
                  \o print_exif_data(exif_dict, "Interop")
    /\ pc' = Successor("interop")
    /\ UNCHANGED <<image, exif_data, exif_dict, exc, raised>>

\* Lines 143-144.
PrintFirst ==
    /\ pc = "first"
    /\ out' = out \o <<Header("1st EXIF Data")>>
                  \o print_exif_data(exif_dict, "1st")
    /\ pc' = Successor("first")
    /\ UNCHANGED <<image, exif_data, exif_dict, exc, raised>>

\* Lines 147-149.
PrintThumbnail ==
    /\ pc = "thumbnail"
    /\ out' = IF "thumbnail" \in exif_dict.keys
              THEN out \o <<Header("Thumbnail Data"), [kind |-> "thumbnail"]>>
              ELSE out
    /\ pc' = Successor("thumbnail")
    /\ UNCHANGED <<image, exif_data, exif_dict, exc, raised>>

\* Lines 153-154: the handler of the try block.
HandleExtractError ==
    /\ pc = "except"
    /\ IF ExtractHandlerCatches(exc)
       THEN /\ out' = Append(out, [kind |-> "error", cause |-> exc])
            /\ raised' = raised
       ELSE /\ raised' = exc
            /\ out' = out
    /\ exc' = "none"
    /\ pc' = "done"
    /\ UNCHANGED <<image, exif_data, exif_dict>>

\* Lines 156-165.
PrintBasic ==
    /\ pc = "basic"
    /\ out' = out \o <<[kind |-> "basic", text |-> "Basic Information"],
                       [kind |-> "basic", text |-> "Format"],
                       [kind |-> "basic", text |-> "Size"],
                       [kind |-> "basic", text |-> "Mode"],
                       [kind |-> "basic", text |-> "Info"],
                       [kind |-> "notice", text |-> "EXIF primarily JPEG"]>>
    /\ pc' = "done"
    /\ UNCHANGED <<image, exif_data, exif_dict, exc, raised>>

\* Lines 167-168.
PrintUnsupported ==
    /\ pc = "unsupported"
    /\ out' = Append(out, [kind |-> "unsupported", format |-> image.format])
    /\ pc' = "done"
    /\ UNCHANGED <<image, exif_data, exif_dict, exc, raised>>

Next ==
    \/ OpenImage
    \/ OpenFails
    \/ PrintFormat
    \/ ReadExif
    \/ LoadExif
    \/ LoadFails
    \/ PrintGeneral
    \/ PrintCamera
    \/ PrintGPS
    \/ PrintInterop
    \/ PrintFirst
    \/ PrintThumbnail
    \/ HandleExtractError
    \/ PrintBasic
    \/ PrintUnsupported

Spec == Init /\ [][Next]_vars

\* ------------------------------------------------------------ properties
Lines(kind) == SelectSeq(out, LAMBDA l : l.kind = kind)
IsJpegWithBlock ==
    /\ image.fp = "open"
    /\ image.format \in {"JPEG", "JPG"}
    /\ Truthy(image.exif)
Loaded == exif_dict # NoDict
GpsInfo == IF "GPS" \in exif_dict.keys THEN exif_dict.GPS ELSE EmptyGPS
\* The run is past the GPS section without an extraction error.
GpsPrinted == Lines("gps") # <<>>
GpsValue(key) ==
    LET l == SelectSeq(out, LAMBDA x : x.kind = "gps" /\ x.key = key)
    IN l[1].value
CoordinatesShown == GpsPrinted /\ GpsValue("Latitude") # NA

\* C1: no exception ever leaves get_exif_data.
C1_NoExceptionEscapes == raised = "none"

\* C2: a JPEG run with a metadata block whose extraction fails (the parser
\* rejects the block, or parse_gps_data raises) ends with no exception
\* escaping and with exactly one 'error extracting' line, which carries the
\* cause and is the last line printed.
C2_ExtractionErrorReported ==
    (pc = "done" /\ IsJpegWithBlock) =>
        LET failure == IF Loaded THEN parse_gps_data(exif_dict).exc
                       ELSE "InvalidImageDataError"
        IN failure # "none" =>
             /\ raised = "none"
             /\ Len(Lines("error")) = 1
             /\ out[Len(out)] = [kind |-> "error", cause |-> failure]

C2_Witness ==
    /\ pc = "done"
    /\ IsJpegWithBlock
    /\ Loaded
    /\ GpsInfo["GPSLatitude"] # None
    /\ out[Len(out)] = [kind |-> "error", cause |-> "ZeroDivisionError"]

\* C3: once the GPS section of a dictionary without a latitude tag or
\* without a longitude tag has been handled, the ten GPS fields have been
\* printed and each reads "N/A".
C3_MissingCoordinateAllNA ==
    (pc = "done" /\ Loaded
       /\ (GpsInfo["GPSLatitude"] = None \/ GpsInfo["GPSLongitude"] = None)) =>
        /\ Len(Lines("gps")) = 10
        /\ \A i \in 1..Len(Lines("gps")) : Lines("gps")[i].value = NA

\* C4: with both coordinates shown, TimeStamp and DateStamp are the
\* formatter's rendering of their tag, and "N/A" when the tag is absent.
C4_StampsFormattedOrNA ==
    CoordinatesShown =>
        /\ GpsValue("TimeStamp") =
             (IF GpsInfo["GPSTimeStamp"] = None THEN NA
              ELSE format_value(GpsInfo["GPSTimeStamp"]))
        /\ GpsValue("DateStamp") =
             (IF GpsInfo["GPSDateStamp"] = None THEN NA
              ELSE format_value(GpsInfo["GPSDateStamp"]))

\* C5 as stated: the latitude is negated exactly when its reference is "S"
\* and the longitude exactly when its reference is "W"; an absent reference
\* leaves the value unsigned.
C5_SignRuleAbsentUnsigned ==
    CoordinatesShown =>
        /\ GpsValue("Google Maps URL")[2].neg
             = (GpsInfo["GPSLatitudeRef"] = Bytes(<<"S">>))
        /\ GpsValue("Google Maps URL")[4].neg
             = (GpsInfo["GPSLongitudeRef"] = Bytes(<<"W">>))

\* C5 amended: the latitude is negated exactly when its reference is "S"
\* (an absent reference defaults to "N": unsigned); the longitude is
\* negated exactly when its reference is "W" or absent (the default is "W").
C5_SignRuleDefaultWest ==
    CoordinatesShown =>
        /\ GpsValue("Google Maps URL")[2].neg
             = (GpsInfo["GPSLatitudeRef"] = Bytes(<<"S">>))
        /\ GpsValue("Google Maps URL")[4].neg
             = (GpsInfo["GPSLongitudeRef"] \in {Bytes(<<"W">>), None})
        /\ GpsValue("Latitude")[1].neg = GpsValue("Google Maps URL")[2].neg
        /\ GpsValue("Longitude")[1].neg = GpsValue("Google Maps URL")[4].neg

C5_Witness ==
    /\ CoordinatesShown
    /\ GpsInfo["GPSLongitudeRef"] = None
    /\ GpsInfo["GPSLatitudeRef"] = Bytes(<<"S">>)
    /\ GpsValue("Google Maps URL")[4].neg

\* C6: the Latitude and Longitude fields show the unsigned magnitude to 6
\* decimals followed by the reference letter, never a minus sign.
C6_DisplayUnsigned ==
    CoordinatesShown =>
        /\ ~GpsValue("Latitude")[1].neg
        /\ Len(GpsValue("Latitude")[1].frac) = 6
        /\ ~GpsValue("Longitude")[1].neg
        /\ Len(GpsValue("Longitude")[1].frac) = 6

\* C7: the map link carries the coordinates rounded to 6 decimals: the two
\* numbers of the link are the numbers of the Latitude and Longitude fields.
C7_MapUrlSixDecimals ==
    CoordinatesShown =>
        /\ NumeralValue(GpsValue("Google Maps URL")[2])
             = NumeralValue(GpsValue("Latitude")[1])
        /\ NumeralValue(GpsValue("Google Maps URL")[4])
             = NumeralValue(GpsValue("Longitude")[1])

\* C8: at the end of a JPEG run without an extraction error, the thumbnail
\* notice has been printed if and only if the dictionary holds thumbnail
\* data.
C8_ThumbnailNoticeIffData ==
    (pc = "done" /\ Loaded /\ Lines("error") = <<>> /\ raised = "none") =>
        ((Lines("thumbnail") # <<>>) <=>
           ("thumbnail" \in exif_dict.keys /\ Truthy(exif_dict.thumbnail)))

\* C9: the section headers come out in the fixed order General, Camera,
\* GPS, Interop, 1st, Thumbnail, none twice; every section's lines follow
\* its own header, and every tag line its section's line or another tag
\* line; the GPS fields are the ten keys in their fixed order; a
\* run without an extraction error prints at least the first five sections.
SectionOrder ==
    <<"General Information", "Camera Settings", "GPS Data", "Interop Data",
      "1st EXIF Data", "Thumbnail Data">>
SectionOf(line) ==
    CASE line.kind = "gps" -> "GPS Data"
      [] line.kind = "thumbnail" -> "Thumbnail Data"
      [] line.kind = "ifd" /\ line.ifd = "0th" -> "General Information"
      [] line.kind = "ifd" /\ line.ifd = "Exif" -> "Camera Settings"
      [] line.kind = "ifd" /\ line.ifd = "Interop" -> "Interop Data"
      [] line.kind = "ifd" /\ line.ifd = "1st" -> "1st EXIF Data"
      [] OTHER -> ""
\* The header in force at line i: the last header at or before it.
RECURSIVE HeaderAt(_)
HeaderAt(i) ==
    IF i = 0 THEN ""
    ELSE IF out[i].kind = "header" THEN out[i].text
    ELSE HeaderAt(i - 1)
C9_FixedSectionOrder ==
    LET headers == Lines("header")
        gps == Lines("gps")
    IN /\ Len(headers) <= Len(SectionOrder)
       /\ \A i \in 1..Len(headers) : headers[i].text = SectionOrder[i]
       /\ \A i \in 1..Len(out) :
            /\ SectionOf(out[i]) # "" => HeaderAt(i) = SectionOf(out[i])
            /\ out[i].kind = "tag" => i > 1 /\ out[i - 1].kind \in {"ifd", "tag"}
       /\ gps = <<>> \/ [i \in 1..Len(gps) |-> gps[i].key] = GPSKeys
       /\ (pc = "done" /\ Loaded /\ Lines("error") = <<>> /\ raised = "none") =>
            /\ Len(headers) >= 5
            /\ Len(gps) = 10
            /\ Len(Lines("ifd")) = 4

C9_Witness ==
    /\ pc = "done"
    /\ Len(Lines("header")) = 6
    /\ Len(Lines("tag")) >= 3
    /\ CoordinatesShown

\* C10: at the end of every run that opened the image the handle is closed.
C10_HandleReleased ==
    (pc = "done" /\ image.fp # "none") => image.fp = "closed"

====
